---- MODULE Spec2Model ----
(***************************************************************************)
(* A model of serializers/serializer.py: the declared-field collection of  *)
(* the metaclass, the option resolution of SerializerOptions, get_fields,  *)
(* and the object -> primitive walk (serialize, to_native, convert_object, *)
(* field_to_native) with its visited stack and nesting budget.             *)
(*                                                                         *)
(* The recursion of to_native is an explicit call stack (cs).  The         *)
(* primitive tree a call builds is kept as the token sequence of its       *)
(* in-order reading (out): "{" key value ... "}" for a mapping, "[" ... "]"*)
(* for a sequence.  Sequence elements are converted in order, as a         *)
(* consumer that drains the lazy sequences in order does.                  *)
(***************************************************************************)
EXTENDS Integers, Sequences, FiniteSets, TLC

\* ------------------------------------------------------------- bounds

NObj == 4
MaxNested == 2
MaxCalls == 2
MaxTypes == 2

Objs == 1..NObj

\* --------------------------------------------------- values of the graph

\* The values an attribute of an object can hold: None, a scalar, a
\* reference to a composite object, a sequence of composite objects.
\* "unset" marks an attribute no one has read yet.
UnsetV == [t |-> "unset", o |-> 0, items |-> <<>>]
NoneV == [t |-> "none", o |-> 0, items |-> <<>>]
ScalarV(o) == [t |-> "scalar", o |-> o, items |-> <<>>]
RefV(o) == [t |-> "ref", o |-> o, items |-> <<>>]
ListV(xs) == [t |-> "list", o |-> 0, items |-> xs]

RefValues == {NoneV} \cup {RefV(o) : o \in Objs}
\* The sequences of the model: the pairs over the first two objects (a
\* repeated element, an element that is the holder, two distinct elements).
PairValues == {ListV(<<p, q>>) : p \in 1..2, q \in 1..2}

\* ------------------------------------------------------- option values

\* opts.nested is a bool or an int; Python's bool is an int (True == 1).
NBool(b) == [isbool |-> TRUE, val |-> IF b THEN 1 ELSE 0]
NInt(n) == [isbool |-> FALSE, val |-> n]
Truthy(x) == x.val # 0

OptionNames == {"nested", "fields", "exclude", "is_root",
                "renderer_classes", "parser_classes"}

\* A Meta block or a **kwargs dict: "has" holds the names that are present.
NoOpts == [has |-> {}, nested |-> NBool(FALSE), fields |-> <<>>,
           exclude |-> <<>>, is_root |-> FALSE,
           renderer_classes |-> "default", parser_classes |-> "default"]

With(d, name, v) == [[d EXCEPT ![name] = v] EXCEPT !.has = @ \cup {name}]

getattr_meta(meta_, name, default) ==
    IF name \in meta_.has THEN meta_[name] ELSE default

_get_option(name, kwargs, meta_, default) ==
    IF name \in kwargs.has THEN kwargs[name]
    ELSE getattr_meta(meta_, name, default)

SerializerOptions(meta_, kwargs) ==
    [nested |-> getattr_meta(meta_, "nested", NBool(FALSE)),
     fields |-> getattr_meta(meta_, "fields", <<>>),
     exclude |-> getattr_meta(meta_, "exclude", <<>>),
     is_root |-> _get_option("is_root", kwargs, meta_, FALSE),
     renderer_classes |-> getattr_meta(meta_, "renderer_classes", "default"),
     parser_classes |-> getattr_meta(meta_, "parser_classes", "default")]

\* ---------------------------------------------------------- SortedDict

\* django's SortedDict as a sequence of entries, each with a "name" (its
\* key): assigning an existing key replaces the value in place, a new key
\* is appended.
SDHas(sd, key) == \E i \in 1..Len(sd) : sd[i].name = key
SDGet(sd, key) == sd[CHOOSE i \in 1..Len(sd) : sd[i].name = key]
SDKeys(sd) == [i \in 1..Len(sd) |-> sd[i].name]
SDSet(sd, e) ==
    IF SDHas(sd, e.name)
    THEN [i \in 1..Len(sd) |-> IF sd[i].name = e.name THEN e ELSE sd[i]]
    ELSE Append(sd, e)
SDPop(sd, key) == SelectSeq(sd, LAMBDA e : e.name # key)

RECURSIVE SDFrom(_, _)
SDFrom(sd, pairs) ==
    IF pairs = <<>> THEN sd ELSE SDFrom(SDSet(sd, Head(pairs)), Tail(pairs))

\* SortedDict(list of pairs): key order of the first occurrence, value of
\* the last.
SortedDict(pairs) == SDFrom(<<>>, pairs)

\* ------------------------------------------------- serializer classes

\* The serializer types of the model.  ObjectSub and ModelSub are
\* subclasses of ObjectSerializer and ModelSerializer that carry the Meta
\* block that varies; DumpSerializer is a Serializer with a plain field and
\* one declared serializer field marked is_root.  ObjectSerializer and
\* ModelSerializer are the library classes themselves (empty Meta).
\* "declared" is the class's base_fields, as the metaclass leaves it.
FieldDecl(name, label) ==
    [name |-> name, label |-> label, cls |-> "Field", kw |-> NoOpts]
SerializerDecl(name, label, cls, kw) ==
    [name |-> name, label |-> label, cls |-> cls, kw |-> kw]

Classes ==
    [ObjectSerializer |-> [kind |-> "Object", ownMeta |-> FALSE, declared |-> <<>>],
     ModelSerializer |-> [kind |-> "Model", ownMeta |-> FALSE, declared |-> <<>>],
     ObjectSub |-> [kind |-> "Object", ownMeta |-> TRUE, declared |-> <<>>],
     ModelSub |-> [kind |-> "Model", ownMeta |-> TRUE, declared |-> <<>>],
     DumpSerializer |->
        [kind |-> "Plain", ownMeta |-> TRUE,
         declared |-> <<FieldDecl("id", ""),
                        SerializerDecl("fields", "", "ObjectSerializer",
                                       With(NoOpts, "is_root", TRUE))>>]]

TopClasses == {"ObjectSub", "ModelSub", "DumpSerializer"}

\* The Meta block of a class: BaseSerializer.Meta is empty.
MetaOf(cls, m) == IF Classes[cls].ownMeta THEN m ELSE NoOpts

\* ------------------------------------------------ serializer instances

\* An entry of a field mapping: sid is the serializer instance the name is
\* bound to, or 0 for a leaf field of kind leaf ("Field" or "PK", a
\* PrimaryKeyRelatedField).
Entry(name, label, sid, leaf) ==
    [name |-> name, label |-> label, sid |-> sid, leaf |-> leaf]

\* BaseSerializer.__init__ for an instance whose declared fields are decl.
\* obj = 0 and field_name = "": the attribute is not set.
NewSerializer(cls, m, kwargs, decl) ==
    [cls |-> cls, kind |-> Classes[cls].kind,
     opts |-> SerializerOptions(MetaOf(cls, m), kwargs),
     fields |-> decl, stack |-> <<>>, obj |-> 0, field_name |-> "",
     parent |-> 0]

\* cls(**kwargs) appended to the heap: the instance, then the deep copies
\* of its declared serializer fields (which declare no fields themselves).
Instantiate(heap, cls, m, kwargs) ==
    LET base == Len(heap) + 1
        declared == Classes[cls].declared
        isSer(j) == declared[j].cls # "Field"
        sidOf(j) == base + Cardinality({k \in 1..j : isSer(k)})
        decl == [j \in 1..Len(declared) |->
                   IF isSer(j)
                   THEN Entry(declared[j].name, declared[j].label, sidOf(j), "")
                   ELSE Entry(declared[j].name, declared[j].label, 0, "Field")]
        sers == SelectSeq(declared, LAMBDA d : d.cls # "Field")
        subs == [j \in 1..Len(sers) |->
                   NewSerializer(sers[j].cls, m, sers[j].kw, <<>>)]
    IN  heap \o <<NewSerializer(cls, m, kwargs, decl)>> \o subs

\* initialize without the decrement: the child inherits the budget whole.
ChildNested_inherit(pn) == pn

\* BaseSerializer.initialize(parent): the child copies the parent's stack
\* and takes its nesting budget from the parent's.
ChildNested(pn) ==
    IF Truthy(pn) /\ ~pn.isbool THEN NInt(pn.val - 1) ELSE pn

initialize(heap, c, p) ==
    [heap EXCEPT ![c].parent = p,
                 ![c].stack = heap[p].stack,
                 ![c].opts.nested = ChildNested(heap[p].opts.nested)]

RECURSIVE InitializeAll(_, _, _)
InitializeAll(heap, p, flds) ==
    IF flds = <<>> THEN heap
    ELSE InitializeAll(
            IF Head(flds).sid # 0 THEN initialize(heap, Head(flds).sid, p)
            ELSE heap,
            p, Tail(flds))

\* ------------------------------------------------------- default_fields

\* obj.__dict__.keys(): the attributes of every object of the model, in
\* the dict's order; names that start with "_" are private.
ObjDictKeys == <<"r", "_state", "id">>
PrivateNames == {"_state"}
NameRank == [id |-> 1, r |-> 2, _state |-> 0]

RECURSIVE Insert(_, _)
Insert(sorted_, name) ==
    IF sorted_ = <<>> THEN <<name>>
    ELSE IF NameRank[name] <= NameRank[Head(sorted_)] THEN <<name>> \o sorted_
    ELSE <<Head(sorted_)>> \o Insert(Tail(sorted_), name)

RECURSIVE sorted(_)
sorted(names) ==
    IF names = <<>> THEN <<>> ELSE Insert(sorted(Tail(names)), Head(names))

\* The model introspection of every model class: the pk field, then
\* opts.fields (the pk among them), then opts.many_to_many.
ModelFields == <<[name |-> "id", rel |-> FALSE],
                 [name |-> "id", rel |-> FALSE],
                 [name |-> "r", rel |-> TRUE]>>

\* ObjectSerializer.default_fields: one field per public attribute, in
\* sorted order; a new serializer of the same class when nested, a Field
\* otherwise.
RECURSIVE ObjectDefaults(_, _, _, _, _, _)
ObjectDefaults(heap, s, m, names, nested, ret) ==
    IF names = <<>> THEN [heap |-> heap, flds |-> ret]
    ELSE IF Truthy(nested)
    THEN LET c == Len(heap) + 1
             h == initialize(Instantiate(heap, heap[s].cls, m, NoOpts), c, s)
         IN  ObjectDefaults(h, s, m, Tail(names), nested,
                            SDSet(ret, Entry(Head(names), "", c, "")))
    ELSE ObjectDefaults(heap, s, m, Tail(names), nested,
                        SDSet(ret, Entry(Head(names), "", 0, "Field")))

\* ModelSerializer.default_fields: a ModelSerializer() for a relation when
\* nested, a PrimaryKeyRelatedField for a relation otherwise, a Field for
\* the rest.
RECURSIVE ModelDefaults(_, _, _, _, _, _)
ModelDefaults(heap, s, m, mfields, nested, ret) ==
    IF mfields = <<>> THEN [heap |-> heap, flds |-> ret]
    ELSE LET f == Head(mfields) IN
      IF f.rel /\ Truthy(nested)
      THEN LET c == Len(heap) + 1
               h == initialize(Instantiate(heap, "ModelSerializer", m, NoOpts), c, s)
           IN  ModelDefaults(h, s, m, Tail(mfields), nested,
                             SDSet(ret, Entry(f.name, "", c, "")))
      ELSE ModelDefaults(heap, s, m, Tail(mfields), nested,
                         SDSet(ret, Entry(f.name, "", 0,
                                          IF f.rel THEN "PK" ELSE "Field")))

default_fields(heap, s, m, nested) ==
    IF heap[s].kind = "Object"
    THEN ObjectDefaults(heap, s, m,
                        sorted(SelectSeq(ObjDictKeys,
                                         LAMBDA k : k \notin PrivateNames)),
                        nested, <<>>)
    ELSE IF heap[s].kind = "Model"
    THEN ModelDefaults(heap, s, m, ModelFields, nested, <<>>)
    ELSE [heap |-> heap, flds |-> <<>>]

\* ----------------------------------------------------------- get_fields

\* The declared fields, then the default fields under a name not declared.
RECURSIVE MergeFields(_, _)
MergeFields(ret, defaults) ==
    IF defaults = <<>> THEN ret
    ELSE MergeFields(IF SDHas(ret, Head(defaults).name) THEN ret
                     ELSE SDSet(ret, Head(defaults)),
                     Tail(defaults))

\* new[key] = ret[key] for key in opts.fields; a missing key is a KeyError.
RECURSIVE Allowlist(_, _, _)
Allowlist(ret, keys, new) ==
    IF keys = <<>> THEN new
    ELSE Allowlist(ret, Tail(keys), SDSet(new, SDGet(ret, Head(keys))))

RECURSIVE Exclude(_, _)
Exclude(ret, keys) ==
    IF keys = <<>> THEN ret ELSE Exclude(SDPop(ret, Head(keys)), Tail(keys))

\* opts.fields used as a filter only: the merged order is kept.
FilterFields_merged_order(ret, fields, exclude) ==
    IF fields # <<>> /\ \E i \in 1..Len(fields) : ~SDHas(ret, fields[i])
    THEN [err |-> "KeyError", flds |-> <<>>]
    ELSE [err |-> "",
          flds |-> Exclude(IF fields # <<>>
                           THEN SelectSeq(ret, LAMBDA e :
                                    \E i \in 1..Len(fields) : fields[i] = e.name)
                           ELSE ret,
                           exclude)]

\* The tail of get_fields: opts.fields, then opts.exclude.
FilterFields(ret, fields, exclude) ==
    IF fields # <<>> /\ \E i \in 1..Len(fields) : ~SDHas(ret, fields[i])
    THEN [err |-> "KeyError", flds |-> <<>>]
    ELSE [err |-> "",
          flds |-> Exclude(IF fields # <<>> THEN Allowlist(ret, fields, <<>>)
                           ELSE ret,
                           exclude)]

\* get_fields(obj, cls, nested) of serializer s: initializes the declared
\* fields, builds the default fields, merges and filters.
get_fields(heap, s, m, nested) ==
    LET h1 == InitializeAll(heap, s, heap[s].fields)
        d == default_fields(h1, s, m, nested)
        f == FilterFields(MergeFields(SortedDict(heap[s].fields), d.flds),
                          heap[s].opts.fields, heap[s].opts.exclude)
    IN  [heap |-> d.heap, flds |-> f.flds, err |-> f.err]

\* ---------------------------------------------------------------- state

VARIABLES
    pc,       \* "new": no instance yet; "idle"; "run": inside serialize; "raised"
    topcls,   \* the class of the top-level serializer
    meta,     \* the Meta block of that class
    ser,      \* the heap of serializer instances; ser[1] is the top-level one
    rel,      \* the attribute r of each object (the object graph)
    cs,       \* the call stack of to_native / convert_object frames
    out,      \* the tokens of the primitive tree built so far
    value,    \* self.value: the result of the last finished serialize
    err,      \* the exception that ended the call, or ""
    calls,    \* the number of serialize calls made on ser[1]
    kw,       \* the keyword arguments ser[1] was constructed with
    opts0,    \* the options of ser[1] as resolved at construction
    ovr,      \* the keyword overrides of the current serialize call
    arg,      \* the object(s) passed to the current serialize call
    rootret,  \* what the to_native of an is_root field last returned
    types,    \* the serializer types declared so far (the metaclass's view)
    creation_counter,   \* Field.creation_counter
    gf        \* the inputs and the result of one get_fields resolution

walkVars == <<pc, topcls, meta, ser, rel, cs, out, value, err, calls, kw,
              opts0, ovr, arg, rootret>>
vars == <<pc, topcls, meta, ser, rel, cs, out, value, err, calls, kw,
          opts0, ovr, arg, rootret, types, creation_counter, gf>>

\* --------------------------------------------------------------- tokens

\* One token of the primitive tree.  k: "{" "}" "[" "]" "key" "scalar"
\* "none" "flat" (an object as a Field renders it) "pk" (as a
\* PrimaryKeyRelatedField renders it); n: the key; o: the object;
\* cyc: the token was produced by the fallback of the recursion check.
Tok(k, n, o, cyc) == [k |-> k, n |-> n, o |-> o, cyc |-> cyc]

RECURSIVE FlatItems(_, _, _)
FlatItems(items, leaf, cyc) ==
    IF items = <<>> THEN <<>>
    ELSE <<Tok(IF leaf = "PK" THEN "pk" ELSE "flat", "", Head(items), cyc)>>
         \o FlatItems(Tail(items), leaf, cyc)

\* Field.to_native / PrimaryKeyRelatedField.to_native of a value: the flat
\* (non-nested) representation.
FlatTokens(v, leaf, cyc) ==
    IF v.t = "none" THEN <<Tok("none", "", 0, cyc)>>
    ELSE IF v.t = "scalar" THEN <<Tok("scalar", "", v.o, cyc)>>
    ELSE IF v.t = "ref"
    THEN <<Tok(IF leaf = "PK" THEN "pk" ELSE "flat", "", v.o, cyc)>>
    ELSE <<Tok("[", "", 0, cyc)>> \o FlatItems(v.items, leaf, cyc)
         \o <<Tok("]", "", 0, cyc)>>

\* --------------------------------------------------------------- frames

\* A frame of the call stack: a pending to_native(v) on serializer s
\* ("call"), a convert_object(o) at its field i ("conv"), a sequence at
\* its element i ("list").  b is the length of out when the call began:
\* what the call returns is what out has gained since.
CallF(s, v, b) ==
    [op |-> "call", s |-> s, v |-> v, o |-> 0, flds |-> <<>>, i |-> 0, b |-> b]
ConvF(s, o, flds, b) ==
    [op |-> "conv", s |-> s, v |-> NoneV, o |-> o, flds |-> flds, i |-> 1, b |-> b]
ListF(s, v, b) ==
    [op |-> "list", s |-> s, v |-> v, o |-> 0, flds |-> <<>>, i |-> 1, b |-> b]

Top(c) == c[Len(c)]
Pop(c) == SubSeq(c, 1, Len(c) - 1)

\* ------------------------------------------------------ the object walk

\* getattr(obj, name): every object has the scalar id and the relation r.
HasAttr(name) == name \in {"id", "r"}
GetAttr(g, o, name) == IF name = "id" THEN ScalarV(o) ELSE g[o]

\* convert_field_key that returns the label even when there is none.
convert_field_key_label(e) == e.label

convert_field_key(e) == IF e.label # "" THEN e.label ELSE e.name

\* Which object a serializer field converts: the container itself when
\* is_root, the named attribute otherwise.
FieldSource(heap, sid, g, o, name) ==
    IF heap[sid].opts.is_root THEN RefV(o) ELSE GetAttr(g, o, name)

\* field.field_to_native(obj, field_name) for the entry e: a leaf field
\* yields its flat tokens; a serializer field records obj and field_name
\* (BaseSerializer.field_to_native; ModelSerializer's override does not)
\* and calls its to_native.
field_to_native(heap, g, e, o, name, cyc, b) ==
    IF e.sid = 0
    THEN IF ~HasAttr(name)
         THEN [heap |-> heap, push |-> <<>>, toks |-> <<>>, err |-> "AttributeError"]
         ELSE [heap |-> heap, push |-> <<>>,
               toks |-> FlatTokens(GetAttr(g, o, name), e.leaf, cyc), err |-> ""]
    ELSE LET h == IF heap[e.sid].kind = "Model" THEN heap
                  ELSE [heap EXCEPT ![e.sid].obj = o, ![e.sid].field_name = name]
         IN  IF ~heap[e.sid].opts.is_root /\ ~HasAttr(name)
             THEN [heap |-> h, push |-> <<>>, toks |-> <<>>, err |-> "AttributeError"]
             ELSE [heap |-> h,
                   push |-> <<CallF(e.sid, FieldSource(heap, e.sid, g, o, name), b)>>,
                   toks |-> <<>>, err |-> ""]

\* determine_recursion: TRUE when obj is on the stack of a serializer that
\* is not is_root (and then nothing is pushed).
determine_recursion(heap, s, o) ==
    /\ \E i \in 1..Len(heap[s].stack) : heap[s].stack[i] = o
    /\ ~heap[s].opts.is_root

\* convert_object(obj) up to its first field: the recursion fallback, or
\* the push, get_fields and the frame that will convert the fields.
\* c is the configuration [heap, cs, out, err] with the call on top.
convert_object(c, g, m, s, o) ==
    IF determine_recursion(c.heap, s, o)
    THEN IF c.heap[s].obj = 0
         THEN [c EXCEPT !.err = "cycle:AttributeError"]
         ELSE LET fs == get_fields(c.heap, s, m, NBool(FALSE))
                  name == c.heap[s].field_name
              IN  IF fs.err # "" \/ ~SDHas(fs.flds, name)
                  THEN [c EXCEPT !.heap = fs.heap, !.err = "cycle:KeyError"]
                  ELSE LET r == field_to_native(fs.heap, g, SDGet(fs.flds, name),
                                                c.heap[s].obj, name, TRUE,
                                                Top(c.cs).b)
                       IN  [heap |-> r.heap, cs |-> Pop(c.cs) \o r.push,
                            out |-> c.out \o r.toks,
                            err |-> IF r.err = "" THEN "" ELSE "cycle:AttributeError"]
    ELSE LET h == [c.heap EXCEPT ![s].stack = Append(@, o)]
             fs == get_fields(h, s, m, h[s].opts.nested)
         IN  IF fs.err # ""
             THEN [c EXCEPT !.heap = fs.heap, !.err = fs.err]
             ELSE [heap |-> fs.heap,
                   cs |-> Append(Pop(c.cs), ConvF(s, o, fs.flds, Top(c.cs).b)),
                   out |-> Append(c.out, Tok("{", "", 0, FALSE)),
                   err |-> ""]

\* to_native(v) on serializer s, the call being on top of the stack.
to_native(c, g, m, s, v) ==
    IF v.t \in {"none", "scalar"}
    THEN [c EXCEPT !.cs = Pop(c.cs), !.out = c.out \o FlatTokens(v, "Field", FALSE)]
    ELSE IF v.t = "list"
    THEN [c EXCEPT !.cs = Append(Pop(c.cs), ListF(s, v, Top(c.cs).b)),
                   !.out = Append(c.out, Tok("[", "", 0, FALSE))]
    ELSE convert_object(c, g, m, s, v.o)

\* -------------------------------------------------------------- actions

\* The inputs of the walk.
MetaChoices ==
    {NoOpts, With(NoOpts, "nested", NBool(TRUE)),
     With(NoOpts, "exclude", <<"id">>),
     With(With(NoOpts, "nested", NBool(TRUE)), "fields", <<"r", "id">>)}
    \cup {With(NoOpts, "nested", NInt(n)) : n \in 1..MaxNested}

OverrideChoices ==
    {NoOpts, With(NoOpts, "nested", NBool(TRUE)),
     With(With(With(NoOpts, "fields", <<"r", "id">>), "exclude", <<"r">>),
          "nested", NInt(1))}

ArgChoices == {RefV(1), ListV(<<1, 1>>), ListV(<<1, 2>>)}

\* cls(**kwargs): the top-level serializer is constructed.
Construct(kwargs) ==
    /\ pc = "new"
    /\ ser' = Instantiate(<<>>, topcls, meta, kwargs)
    /\ kw' = kwargs
    /\ opts0' = ser'[1].opts
    /\ pc' = "idle"
    /\ UNCHANGED <<topcls, meta, rel, cs, out, value, err, calls, ovr, arg,
                   rootret, types, creation_counter, gf>>

\* setattr(opts, keyword, opts.pop(keyword)) for the three keywords.
SetOptions(o, ov) ==
    [o EXCEPT !.fields = IF "fields" \in ov.has THEN ov.fields ELSE @,
              !.exclude = IF "exclude" \in ov.has THEN ov.exclude ELSE @,
              !.nested = IF "nested" \in ov.has THEN ov.nested ELSE @]

\* The declared fields of ser[1] that are is_root serializers.
RootFields(heap) ==
    {i \in 1..Len(heap[1].fields) :
        /\ heap[1].fields[i].sid # 0
        /\ heap[heap[1].fields[i].sid].opts.is_root}

\* serialize up to the call of to_native: the stack is reset and the
\* overrides go to the first is_root field (which pops them), or to the
\* serializer's own options when it has none.
RouteOverrides(heap, ov) ==
    LET h == [heap EXCEPT ![1].stack = <<>>] IN
    IF RootFields(h) # {}
    THEN LET i == CHOOSE i \in RootFields(h) : \A j \in RootFields(h) : i <= j
             sid == h[1].fields[i].sid
         IN  [h EXCEPT ![sid].opts = SetOptions(@, ov)]
    ELSE [h EXCEPT ![1].opts = SetOptions(@, ov)]

\* serialize("python", a, **ov) is called on ser[1].
Serialize(a, ov) ==
    /\ pc = "idle"
    /\ calls < MaxCalls
    /\ ser' = RouteOverrides(ser, ov)
    /\ cs' = <<CallF(1, a, 0)>>
    /\ out' = <<>>
    /\ ovr' = ov
    /\ arg' = a
    /\ calls' = calls + 1
    /\ pc' = "run"
    /\ UNCHANGED <<topcls, meta, rel, value, err, kw, opts0, rootret,
                   types, creation_counter, gf>>

\* The walk moves to configuration c; the call returns when the call
\* stack empties (self.value = data) and ends when an exception is raised.
Commit(c) ==
    /\ ser' = c.heap
    /\ cs' = IF c.err # "" THEN <<>> ELSE c.cs
    /\ out' = c.out
    /\ err' = c.err
    /\ pc' = IF c.err # "" THEN "raised" ELSE IF c.cs = <<>> THEN "idle" ELSE "run"
    /\ value' = IF c.err = "" /\ c.cs = <<>> THEN c.out ELSE value
    /\ UNCHANGED <<topcls, meta, calls, kw, opts0, ovr, arg,
                   types, creation_counter, gf>>

Config == [heap |-> ser, cs |-> cs, out |-> out, err |-> ""]

\* A pending to_native call runs up to its first recursive call.
ToNative ==
    /\ pc = "run"
    /\ Top(cs).op = "call"
    /\ Commit(to_native(Config, rel, meta, Top(cs).s, Top(cs).v))
    /\ UNCHANGED <<rel, rootret>>

\* convert_object converts its next field: the key, then the field's
\* field_to_native.  The attribute r of an object takes its value when it
\* is first read: one of refs, or for object 1 also one of lists.
FieldStep(refs, lists) ==
    /\ pc = "run"
    /\ Top(cs).op = "conv"
    /\ Top(cs).i <= Len(Top(cs).flds)
    /\ LET f == Top(cs)
           e == f.flds[f.i]
       IN  \E v \in (IF e.name = "r" /\ rel[f.o] = UnsetV
                    THEN refs \cup (IF f.o = 1 THEN lists ELSE {})
                    ELSE {rel[f.o]}) :
              LET g == [rel EXCEPT ![f.o] = v]
                  r == field_to_native(ser, g, e, f.o, e.name, FALSE, Len(out) + 1)
              IN  /\ rel' = g
                  /\ UNCHANGED rootret
                  /\ Commit([heap |-> r.heap,
                             cs |-> Append(Pop(cs), [f EXCEPT !.i = @ + 1]) \o r.push,
                             out |-> Append(out, Tok("key", convert_field_key(e), 0, FALSE))
                                     \o r.toks,
                             err |-> r.err])

\* The sequence being converted yields its next element.
ListStep ==
    /\ pc = "run"
    /\ Top(cs).op = "list"
    /\ Top(cs).i <= Len(Top(cs).v.items)
    /\ LET f == Top(cs) IN
       Commit([Config EXCEPT
                 !.cs = Append(Append(Pop(cs), [f EXCEPT !.i = @ + 1]),
                               CallF(f.s, RefV(f.v.items[f.i]), Len(out)))])
    /\ UNCHANGED <<rel, rootret>>

\* convert_object returns its mapping, or the sequence ends.
Return ==
    /\ pc = "run"
    /\ Top(cs).op \in {"conv", "list"}
    /\ Top(cs).i > (IF Top(cs).op = "conv" THEN Len(Top(cs).flds)
                    ELSE Len(Top(cs).v.items))
    /\ Commit([Config EXCEPT
                 !.cs = Pop(cs),
                 !.out = Append(out, Tok(IF Top(cs).op = "conv" THEN "}" ELSE "]",
                                         "", 0, FALSE))])
    /\ rootret' = IF Top(cs).op = "conv" /\ ser[Top(cs).s].opts.is_root
                  THEN SubSeq(out', Top(cs).b + 1, Len(out'))
                  ELSE rootret
    /\ UNCHANGED rel

\* ----------------------------------------------------- the walk's spec

Init ==
    /\ pc = "new"
    /\ topcls \in TopClasses
    /\ meta \in MetaChoices
    /\ ser = <<>>
    /\ rel = [o \in Objs |-> UnsetV]
    /\ cs = <<>>
    /\ out = <<>>
    /\ value = <<>>
    /\ err = ""
    /\ calls = 0
    /\ kw = NoOpts
    /\ opts0 = SerializerOptions(NoOpts, NoOpts)
    /\ ovr = NoOpts
    /\ arg = NoneV
    /\ rootret = <<>>
    /\ types = <<>>
    /\ creation_counter = 0
    /\ gf = <<>>

Next ==
    \/ Construct(NoOpts)
    \/ \E a \in ArgChoices : calls = 0 /\ Serialize(a, NoOpts)
    \/ ToNative
    \/ FieldStep(RefValues, PairValues)
    \/ ListStep
    \/ Return

Spec == Init /\ [][Next]_vars

\* ------------------------------------------ the options' life (SpecOpts)

\* A second specification of the same actions for the options of ser[1]:
\* every kind of constructor keyword and Meta entry, up to MaxCalls
\* serialize calls with overrides, on objects whose relation is None.
MetaOptChoices ==
    {NoOpts, With(NoOpts, "nested", NBool(TRUE)),
     With(NoOpts, "fields", <<"r", "id">>), With(NoOpts, "exclude", <<"id">>),
     With(NoOpts, "renderer_classes", "custom")}

KwargChoices ==
    {NoOpts, With(NoOpts, "nested", NBool(TRUE)), With(NoOpts, "fields", <<"id">>),
     With(NoOpts, "exclude", <<"r">>), With(NoOpts, "is_root", TRUE),
     With(NoOpts, "parser_classes", "custom")}

InitOpts ==
    /\ pc = "new"
    /\ topcls \in {"ObjectSub", "DumpSerializer"}
    /\ meta \in MetaOptChoices
    /\ ser = <<>>
    /\ rel = [o \in Objs |-> UnsetV]
    /\ cs = <<>>
    /\ out = <<>>
    /\ value = <<>>
    /\ err = ""
    /\ calls = 0
    /\ kw = NoOpts
    /\ opts0 = SerializerOptions(NoOpts, NoOpts)
    /\ ovr = NoOpts
    /\ arg = NoneV
    /\ rootret = <<>>
    /\ types = <<>>
    /\ creation_counter = 0
    /\ gf = <<>>

NextOpts ==
    \/ \E kwargs \in KwargChoices : Construct(kwargs)
    \/ \E ov \in OverrideChoices : Serialize(RefV(1), ov)
    \/ ToNative
    \/ FieldStep({NoneV}, {})
    \/ Return

SpecOpts == InitOpts /\ [][NextOpts]_vars

\* ------------------------------------- declared fields (the metaclass)

FieldNames == {"A", "B", "C", "D"}

\* The sequences without repetition over a set of names.
RECURSIVE DistinctSeqs(_)
DistinctSeqs(S) ==
    {<<>>} \cup UNION {{<<x>> \o q : q \in DistinctSeqs(S \ {x})} : x \in S}

\* What one class body declares: at most three of the four names.
Declarations == {q \in DistinctSeqs(FieldNames) : Len(q) < Cardinality(FieldNames)}

\* What the first class of a hierarchy declares: the names being
\* interchangeable, a prefix of A, B, C.
FirstDeclarations == {SubSeq(<<"A", "B", "C">>, 1, n) : n \in 0..3}

\* The orders in which a dict of n items can yield them.
DictOrders ==
    [n \in 0..Cardinality(FieldNames) |->
        {f \in [1..n -> 1..n] : \A i \in 1..n, j \in 1..n : f[i] = f[j] => i = j}]

\* list.sort(key=creation_counter), as an insertion sort.
RECURSIVE InsertByCounter(_, _)
InsertByCounter(sorted_, e) ==
    IF sorted_ = <<>> THEN <<e>>
    ELSE IF e.creation_counter < Head(sorted_).creation_counter
    THEN <<e>> \o sorted_
    ELSE <<Head(sorted_)>> \o InsertByCounter(Tail(sorted_), e)

RECURSIVE SortByCounter(_)
SortByCounter(fields) ==
    IF fields = <<>> THEN <<>>
    ELSE InsertByCounter(SortByCounter(SubSeq(fields, 1, Len(fields) - 1)),
                         fields[Len(fields)])

\* for base in bases[::-1]: fields = base.base_fields.items() + fields.
\* A base 0 is a class without base_fields (object, BaseSerializer).
RECURSIVE PrependBases(_, _, _)
PrependBases(ts, bases, fields) ==
    IF bases = <<>> THEN fields
    ELSE LET base == bases[Len(bases)]
         IN  PrependBases(ts, SubSeq(bases, 1, Len(bases) - 1),
                          IF base # 0 THEN ts[base].base_fields \o fields
                          ELSE fields)

\* _get_declared_fields without the sort: the dict's order is kept.
get_declared_fields_unsorted(ts, bases, attrs) ==
    SortedDict(PrependBases(ts, bases, SelectSeq(attrs, LAMBDA a : a.isField)))

\* _get_declared_fields(bases, attrs): attrs is the class body, as the
\* items its dict yields; the entries that are Fields are sorted by their
\* creation_counter and the bases' fields go before them.
get_declared_fields(ts, bases, attrs) ==
    LET fields == SelectSeq(attrs, LAMBDA a : a.isField)
    IN  SortedDict(PrependBases(ts, bases, SortByCounter(fields)))

\* A class statement: names are the fields of the body in the order they
\* are written (each Field() takes the next creation_counter), the body
\* also holds a Meta attribute, and the dict yields the fields in order p.
DeclareType(bases, names, p) ==
    /\ pc = "types"
    /\ Len(types) < MaxTypes
    /\ LET t == Len(types) + 1
           body == [j \in 1..Len(names) |->
                      [name |-> names[j], isField |-> TRUE,
                       creation_counter |-> creation_counter + j - 1, owner |-> t]]
           attrs == <<[name |-> "Meta", isField |-> FALSE,
                       creation_counter |-> 0, owner |-> t]>>
                    \o [j \in 1..Len(names) |-> body[p[j]]]
       IN  types' = Append(types,
                           [bases |-> bases, order |-> names,
                            base_fields |-> get_declared_fields(types, bases, attrs)])
    /\ creation_counter' = creation_counter + Len(names)
    /\ UNCHANGED <<walkVars, gf>>

\* The bases of a new class: none, object, or one or two of the serializer
\* types declared so far.
BaseChoices ==
    {<<>>, <<0>>} \cup {<<b>> : b \in 1..Len(types)}
    \cup {q \in {<<a, b>> : a \in 1..Len(types), b \in 1..Len(types)} :
            q[1] # q[2]}

InitDecl ==
    /\ pc = "types"
    /\ topcls = "ObjectSub"
    /\ meta = NoOpts
    /\ ser = <<>>
    /\ rel = [o \in Objs |-> UnsetV]
    /\ cs = <<>>
    /\ out = <<>>
    /\ value = <<>>
    /\ err = ""
    /\ calls = 0
    /\ kw = NoOpts
    /\ opts0 = SerializerOptions(NoOpts, NoOpts)
    /\ ovr = NoOpts
    /\ arg = NoneV
    /\ rootret = <<>>
    /\ types = <<>>
    /\ creation_counter = 0
    /\ gf = <<>>

NextDecl ==
    /\ Len(types) < MaxTypes
    /\ \E bases \in BaseChoices,
          names \in (IF types = <<>> THEN FirstDeclarations ELSE Declarations) :
          \E p \in DictOrders[Len(names)] : DeclareType(bases, names, p)

SpecDecl == InitDecl /\ [][NextDecl]_vars

\* ------------------------------------------- get_fields as a function

KeyNames == {"a", "b", "c"}

\* The sequences over S of length at most n.
RECURSIVE SeqsUpTo(_, _)
SeqsUpTo(S, n) ==
    IF n = 0 THEN {<<>>}
    ELSE SeqsUpTo(S, n - 1)
         \cup {Append(q, x) : q \in {r \in SeqsUpTo(S, n - 1) : Len(r) = n - 1}, x \in S}

MaxListed == 2

\* get_fields on a serializer whose declared fields are gf.declared, whose
\* default_fields returns gf.defaults, with opts.fields and opts.exclude.
GetFieldsCall ==
    /\ pc = "fields"
    /\ ~gf.done
    /\ LET declared == [i \in 1..Len(gf.declared) |->
                          Entry(gf.declared[i], "", 0, "Field")]
           defaults == [i \in 1..Len(gf.defaults) |->
                          Entry(gf.defaults[i], "", 0, "PK")]
           r == FilterFields(MergeFields(SortedDict(declared), defaults),
                             gf.fields, gf.exclude)
       IN  gf' = [gf EXCEPT !.done = TRUE, !.err = r.err, !.ret = r.flds]
    /\ UNCHANGED <<walkVars, types, creation_counter>>

InitFields ==
    /\ pc = "fields"
    /\ topcls = "ObjectSub"
    /\ meta = NoOpts
    /\ ser = <<>>
    /\ rel = [o \in Objs |-> UnsetV]
    /\ cs = <<>>
    /\ out = <<>>
    /\ value = <<>>
    /\ err = ""
    /\ calls = 0
    /\ kw = NoOpts
    /\ opts0 = SerializerOptions(NoOpts, NoOpts)
    /\ ovr = NoOpts
    /\ arg = NoneV
    /\ rootret = <<>>
    /\ types = <<>>
    /\ creation_counter = 0
    /\ gf \in [declared : {q \in DistinctSeqs(KeyNames) : Len(q) < Cardinality(KeyNames)},
               defaults : DistinctSeqs(KeyNames),
               fields : SeqsUpTo(KeyNames, MaxListed),
               exclude : SeqsUpTo(KeyNames, MaxListed),
               done : {FALSE}, err : {""}, ret : {<<>>}]

NextFields == GetFieldsCall

SpecFields == InitFields /\ [][NextFields]_vars

\* --------------------------------------------------------------- claims

Range(q) == {q[i] : i \in 1..Len(q)}

\* q with every element kept at its first occurrence only.
RECURSIVE FirstOccurrences(_)
FirstOccurrences(q) ==
    IF q = <<>> THEN <<>>
    ELSE LET r == FirstOccurrences(SubSeq(q, 1, Len(q) - 1))
         IN  IF q[Len(q)] \in Range(r) THEN r ELSE Append(r, q[Len(q)])

\* The keys of the bases' field sets, one base after the other.
RECURSIVE BaseKeys(_)
BaseKeys(bases) ==
    IF bases = <<>> THEN <<>>
    ELSE (IF Head(bases) = 0 THEN <<>> ELSE SDKeys(types[Head(bases)].base_fields))
         \o BaseKeys(Tail(bases))

\* C1: the resolved field set of every declared type holds the bases' keys
\* first, in the bases' order and each once, then the names the type
\* declares that no base has, in the order of their creation_counter; a
\* name the type declares is bound to the type's own field whatever
\* position it has, and every other name to a base's field.
C1_DeclarationOrder ==
    \A t \in 1..Len(types) :
        LET T == types[t]
            F == T.base_fields
        IN  /\ SDKeys(F) = FirstOccurrences(BaseKeys(T.bases) \o T.order)
            /\ \A i \in 1..Len(F) : (F[i].name \in Range(T.order)) <=> (F[i].owner = t)
            /\ \A i \in 1..Len(F), j \in 1..Len(F) :
                  (i < j /\ F[j].name \notin Range(BaseKeys(T.bases)))
                     => /\ F[i].name \in Range(BaseKeys(T.bases))
                           \/ F[i].creation_counter < F[j].creation_counter

\* A base declares A, B, C; its subclass declares D and B again: the
\* subclass's keys are A, B, C, D and B is the subclass's field.
C1_Witness ==
    \E t \in 1..Len(types) :
        /\ Len(types[t].bases) = 1
        /\ types[t].bases[1] # 0
        /\ SDKeys(types[types[t].bases[1]].base_fields) = <<"A", "B", "C">>
        /\ types[t].order = <<"D", "B">>
        /\ SDKeys(types[t].base_fields) = <<"A", "B", "C", "D">>
        /\ types[t].base_fields[2].owner = t

\* The key sequence get_fields is to return for the inputs gf.
ExpectedKeys ==
    LET merged == gf.declared
                  \o SelectSeq(gf.defaults, LAMBDA k : k \notin Range(gf.declared))
        listed == IF gf.fields # <<>> THEN FirstOccurrences(gf.fields) ELSE merged
    IN  SelectSeq(listed, LAMBDA k : k \notin Range(gf.exclude))

\* C4: get_fields returns the names of opts.fields in their given order
\* when it is non-empty (each once), the declared fields followed by the
\* default fields not declared otherwise, in both cases without the names
\* of opts.exclude; a declared name stays bound to the declared field; it
\* raises exactly when opts.fields names a field that does not exist.
C4_GetFieldsOrder ==
    (pc = "fields" /\ gf.done) =>
        IF gf.fields # <<>> /\ ~(Range(gf.fields) \subseteq Range(gf.declared \o gf.defaults))
        THEN gf.err = "KeyError"
        ELSE /\ gf.err = ""
             /\ SDKeys(gf.ret) = ExpectedKeys
             /\ \A i \in 1..Len(gf.ret) :
                   gf.ret[i].leaf = IF gf.ret[i].name \in Range(gf.declared)
                                    THEN "Field" ELSE "PK"

\* An allowlist that reorders a declared and a default field, with an
\* exclusion that removes one of them and names an absent field.
C4_Witness ==
    /\ pc = "fields"
    /\ gf.done
    /\ gf.declared = <<"a">>
    /\ gf.defaults = <<"b", "a", "c">>
    /\ gf.fields = <<"c", "a">>
    /\ gf.exclude = <<"a", "b">>
    /\ SDKeys(gf.ret) = <<"c">>

\* The number of mappings open around token i of q.
BraceDepth(q, i) ==
    Cardinality({j \in 1..(i - 1) : q[j].k = "{"})
    - Cardinality({j \in 1..(i - 1) : q[j].k = "}"})

RootCallDone ==
    /\ pc = "idle" /\ calls > 0 /\ arg.t = "ref"
    /\ Cardinality(RootFields(ser)) = 1
    /\ \A i \in RootFields(ser) :
          /\ ser[1].fields[i].name \notin Range(ser[1].opts.exclude)
          /\ ser[1].opts.fields # <<>> =>
                ser[1].fields[i].name \in Range(ser[1].opts.fields)

CycleErrors == {"cycle:AttributeError", "cycle:KeyError"}

\* C2: to_native of one object on a serializer with nesting enabled never
\* ends in an exception of the recursion check: the repeated object is
\* rendered flat.
C2_CycleFlat ==
    (pc # "new" /\ arg.t = "ref" /\ Truthy(ser[1].opts.nested)) =>
        err \notin CycleErrors

\* C8: the recursion check of convert_object never raises, on any
\* serializer.
C8_CycleNeverRaises == ~(pc = "raised" /\ err \in CycleErrors)

\* C9: the stack of every serializer that is converting an object holds
\* only that object and its ancestors in the traversal.
C9_StackIsPath ==
    \A k \in 1..Len(cs) :
        cs[k].op = "conv" =>
           Range(ser[cs[k].s].stack)
              \subseteq {cs[j].o : j \in {i \in 1..k : cs[i].op = "conv"}}

\* C7: during a serialize call on a serializer with an is_root field, that
\* field's options hold the overrides of the call and the serializer's own
\* options are untouched.
C7_RootOverridesHold ==
    (pc = "run" /\ RootFields(ser) # {}) =>
        /\ ser[1].opts = opts0
        /\ \A i \in RootFields(ser) :
              \A name \in ovr.has :
                 ser[ser[1].fields[i].sid].opts[name] = ovr[name]

\* C5: every option of the constructed serializer is the constructor's
\* keyword if given, else the Meta entry if present, else the default.
C5_KeywordPrecedence ==
    (pc # "new") =>
        \A name \in OptionNames :
           opts0[name] = _get_option(name, kw, MetaOf(topcls, meta),
                                     SerializerOptions(NoOpts, NoOpts)[name])

\* C10: the options of the serializer are those resolved at construction.
C10_OptionsImmutable == (pc # "new") => ser[1].opts = opts0

====
